---- MODULE Spec2Model ----
(***************************************************************************)
(* Model of the AXP209 power-management driver (src/src/lib.rs).           *)
(*                                                                         *)
(* The driver owns a bus transport (`device`) and a device address.  Every *)
(* public accessor issues one write-then-read transaction, decodes the     *)
(* reply bytes and converts the sample with u16 / i16 arithmetic.  The     *)
(* transport is an external collaborator: it is modelled as a stub holding *)
(* the answers it will give, one per transaction, in order.                *)
(***************************************************************************)
EXTENDS Integers, Sequences, FiniteSets, TLC

VARIABLES
    device,     \* the transport: the answers it will still give, in order
    address,    \* Axp209.address
    ncalls,     \* accessor calls made so far on this Axp209 value
    op,         \* the accessor called last ("none" before the first call)
    arg,        \* the register argument of that call (-1: it takes none)
    txLog,      \* the transactions the last accessor call issued
    reply,      \* what the transport answered to the last call
    sample,     \* the raw sample decoded from the reply (local `value`/`x`)
    overflow,   \* some arithmetic step of the last call left its integer type
    ret         \* the Result the last accessor call returned

vars == <<device, address, ncalls, op, arg, txLog, reply, sample, overflow, ret>>

----------------------------------------------------------------------------
(* Bounds of the model. *)

\* Longest run of accessor calls in the sequence specification.
MaxCalls == 2

----------------------------------------------------------------------------
(* Integer types. *)

U8  == 2^8
U16 == 2^16
I16Max == 2^15 - 1
I16Min == -(2^15)

Bytes == 0 .. (U8 - 1)

\* x as u16 << n : bits shifted past bit 15 are dropped
Shl16(x, n) == (x * 2^n) % U16
\* u16 + and * : a release build wraps, a debug build panics where Wraps16 holds
Add16(a, b) == (a + b) % U16
Mul16(a, b) == (a * b) % U16
Wraps16(x) == x >= U16
\* `as i16` of a u16 reinterprets the bit pattern
AsI16(x) == IF x > I16Max THEN x - U16 ELSE x
\* Rust integer division truncates towards zero
DivTrunc(a, b) == IF a >= 0 THEN a \div b ELSE -((-a) \div b)

RECURSIVE BitAnd(_, _)
BitAnd(a, b) ==
    IF a = 0 \/ b = 0 THEN 0
    ELSE (a % 2) * (b % 2) + 2 * BitAnd(a \div 2, b \div 2)

RECURSIVE BitOr(_, _)
BitOr(a, b) ==
    IF a = 0 THEN b
    ELSE IF b = 0 THEN a
    ELSE (IF a % 2 = 1 \/ b % 2 = 1 THEN 1 ELSE 0) + 2 * BitOr(a \div 2, b \div 2)

----------------------------------------------------------------------------
(* Constants of the driver. *)

BATTERY_LEVEL_MISSING == 127      \* 0x7f

Registers ==
    [ PowerStatus |-> 0,                  \* 0x00
      BatteryStatus |-> 1,                \* 0x01
      OutputControl |-> 18,               \* 0x12
      AdcControl |-> 130,                 \* 0x82
      AcinVoltage |-> 86,                 \* 0x56
      AcinCurrent |-> 88,                 \* 0x58
      VbusVoltage |-> 90,                 \* 0x5a
      VbusCurrent |-> 92,                 \* 0x5c
      Temperature |-> 94,                 \* 0x5e
      BatteryTemperature |-> 98,          \* 0x62
      Gpio0Voltage |-> 100,               \* 0x64
      Gpio1Voltage |-> 102,               \* 0x66
      InstantaniousBatteryPower |-> 112,  \* 0x70
      BatteryVoltage |-> 120,             \* 0x78
      BatteryChargeCurrent |-> 122,       \* 0x7a
      BatteryDischargeCurrent |-> 124,    \* 0x7c
      SystemIpsout |-> 126,               \* 0x7e
      CoulombBattery |-> 176,             \* 0xb0
      CoulombBatteryDischarge |-> 180,    \* 0xb4
      CoulombBatteryEncryption |-> 184,   \* 0xb8
      BatteryLevel |-> 185 ]              \* 0xb9

----------------------------------------------------------------------------
(* The transport stub. *)

\* The error kinds of the bus (the transport's associated type E).
BusErrors == {"Nack", "ArbitrationLoss", "Timeout"}

BusOk(hi, lo) == [ok |-> TRUE, data |-> <<hi, lo>>, err |-> "None"]
BusErr(e) == [ok |-> FALSE, data |-> <<>>, err |-> e]

\* Result<T, E>
Ok(v) == [ok |-> TRUE, val |-> v]
Err(e) == [ok |-> FALSE, err |-> e]

\* device.write_read(addr, &comm, &mut buf) with buf of n bytes: one
\* transaction.  On success buf holds the first n bytes of the answer; on
\* failure buf keeps the zeroes it was initialised with.
write_read(addr, comm, n) ==
    LET r == Head(device) IN
    [ ok |-> r.ok,
      buf |-> IF r.ok THEN SubSeq(r.data, 1, n) ELSE [i \in 1 .. n |-> 0],
      err |-> r.err,
      tx |-> <<[addr |-> addr, comm |-> comm, len |-> n]>>,
      rest |-> Tail(device) ]

\* What an accessor hands back: its Result, the transaction(s) it made, the
\* raw sample it decoded and whether its arithmetic left the integer type.
Failed(t) == [res |-> Err(t.err), io |-> t, sample |-> 0, ovf |-> FALSE]
Done(t, raw, v, o) == [res |-> Ok(v), io |-> t, sample |-> raw, ovf |-> o]

----------------------------------------------------------------------------
(* The accessors, as functions of the driver's state (device, address). *)

\* BigEndian::read_u16(&buf)
read_u16(buf) == buf[1] * U8 + buf[2]

\* AdcStatus::new(bits): the flags of the ADC-control register, one per bit
AdcStatus_new(bits) == {i \in 0 .. 15 : (bits \div 2^i) % 2 = 1}

write_read_byte(send) ==
    LET t == write_read(address, <<send>>, 1) IN
    IF t.ok THEN Done(t, t.buf[1], t.buf[1], FALSE) ELSE Failed(t)

adc_control ==
    LET t == write_read(address, <<Registers.AdcControl>>, 2) IN
    IF t.ok
    THEN Done(t, read_u16(t.buf), AdcStatus_new(read_u16(t.buf)), FALSE)
    ELSE Failed(t)

\* Variant: the Result of write_read is dropped and the zeroed buffer decoded.
get_adc_10bits_ignore_error(register) ==
    LET t == write_read(address, <<register>>, 2)
        value == BitOr(Shl16(t.buf[1], 4), BitAnd(t.buf[2], 15))
    IN  Done(t, value, value, Wraps16(t.buf[1] * 2^4))

\* Variant: value |= recv[1] as u16, the mask left out.
get_adc_10bits_unmasked(register) ==
    LET t == write_read(address, <<register>>, 2) IN
    IF t.ok
    THEN LET value == BitOr(Shl16(t.buf[1], 4), t.buf[2]) IN
         Done(t, value, value, Wraps16(t.buf[1] * 2^4))
    ELSE Failed(t)

\* Variant: the shift of the 5-bit layout, (recv[0] as u16) << 5.
get_adc_10bits_shift5(register) ==
    LET t == write_read(address, <<register>>, 2) IN
    IF t.ok
    THEN LET value == BitOr(Shl16(t.buf[1], 5), BitAnd(t.buf[2], 15)) IN
         Done(t, value, value, Wraps16(t.buf[1] * 2^5))
    ELSE Failed(t)

\* Variant: the sample of the previous successful call is kept and reused.
get_adc_10bits_cached(register) ==
    LET t == write_read(address, <<register>>, 2) IN
    IF t.ok
    THEN LET value == IF ncalls > 0 /\ reply.ok
                      THEN sample
                      ELSE BitOr(Shl16(t.buf[1], 4), BitAnd(t.buf[2], 15))
         IN  Done(t, value, value, Wraps16(t.buf[1] * 2^4))
    ELSE Failed(t)

\* value = (recv[0] as u16) << 4;  value |= recv[1] as u16 & 0x0f;
get_adc_10bits(register) ==
    LET t == write_read(address, <<register>>, 2) IN
    IF t.ok
    THEN LET value == BitOr(Shl16(t.buf[1], 4), BitAnd(t.buf[2], 15)) IN
         Done(t, value, value, Wraps16(t.buf[1] * 2^4))
    ELSE Failed(t)

\* Variant: the sample is decoded with get_adc_10bits, as every other channel.
battery_discharging_current_layout_a ==
    LET g == get_adc_10bits(Registers.BatteryDischargeCurrent)
        value == g.res.val
    IN  IF g.res.ok THEN Done(g.io, g.sample, value \div 2, g.ovf) ELSE g

\* value = (recv[0] as u16) << 5;  value |= recv[1] as u16 & 0x1f;  value / 2
battery_discharging_current ==
    LET t == write_read(address, <<Registers.BatteryDischargeCurrent>>, 2) IN
    IF t.ok
    THEN LET value == BitOr(Shl16(t.buf[1], 5), BitAnd(t.buf[2], 31)) IN
         Done(t, value, value \div 2, Wraps16(t.buf[1] * 2^5))
    ELSE Failed(t)

\* Variant: value += value / 7, the scale of the input rails.
battery_voltage_seventh ==
    LET g == get_adc_10bits(Registers.BatteryVoltage)
        value == g.res.val
    IN  IF g.res.ok
        THEN Done(g.io, g.sample, Add16(value, value \div 7),
                  g.ovf \/ Wraps16(value + value \div 7))
        ELSE g

\* value += value / 10
battery_voltage ==
    LET g == get_adc_10bits(Registers.BatteryVoltage)
        value == g.res.val
    IN  IF g.res.ok
        THEN Done(g.io, g.sample, Add16(value, value \div 10),
                  g.ovf \/ Wraps16(value + value \div 10))
        ELSE g

battery_charging_current ==
    LET g == get_adc_10bits(Registers.BatteryChargeCurrent)
        value == g.res.val
    IN  IF g.res.ok THEN Done(g.io, g.sample, value \div 2, g.ovf) ELSE g

\* value += value / 7
acin_voltage ==
    LET g == get_adc_10bits(Registers.AcinVoltage)
        value == g.res.val
    IN  IF g.res.ok
        THEN Done(g.io, g.sample, Add16(value, value \div 7),
                  g.ovf \/ Wraps16(value + value \div 7))
        ELSE g

\* Variant: ((value * 16) / 6) / 16, the divisor of vbus_current.
acin_current_div6 ==
    LET g == get_adc_10bits(Registers.AcinCurrent)
        value == g.res.val
    IN  IF g.res.ok
        THEN Done(g.io, g.sample, (Mul16(value, 16) \div 6) \div 16,
                  g.ovf \/ Wraps16(value * 16))
        ELSE g

\* value = ((value * 16) / 10) / 16
acin_current ==
    LET g == get_adc_10bits(Registers.AcinCurrent)
        value == g.res.val
    IN  IF g.res.ok
        THEN Done(g.io, g.sample, (Mul16(value, 16) \div 10) \div 16,
                  g.ovf \/ Wraps16(value * 16))
        ELSE g

\* value += value / 7
vbus_voltage ==
    LET g == get_adc_10bits(Registers.VbusVoltage)
        value == g.res.val
    IN  IF g.res.ok
        THEN Done(g.io, g.sample, Add16(value, value \div 7),
                  g.ovf \/ Wraps16(value + value \div 7))
        ELSE g

\* value = ((value * 16) / 6) / 16;  value / 2
vbus_current ==
    LET g == get_adc_10bits(Registers.VbusCurrent)
        value == g.res.val
    IN  IF g.res.ok
        THEN Done(g.io, g.sample, ((Mul16(value, 16) \div 6) \div 16) \div 2,
                  g.ovf \/ Wraps16(value * 16))
        ELSE g

\* let mut value = value as i16 / 10;  value -= 145;
temperature ==
    LET g == get_adc_10bits(Registers.Temperature)
        value == DivTrunc(AsI16(g.res.val), 10)
    IN  IF g.res.ok
        THEN Done(g.io, g.sample, value - 145,
                  g.ovf \/ AsI16(g.res.val) # g.res.val \/ value - 145 < I16Min)
        ELSE g

gpio0_voltage ==
    LET g == get_adc_10bits(Registers.Gpio0Voltage)
        value == g.res.val
    IN  IF g.res.ok THEN Done(g.io, g.sample, value \div 2, g.ovf) ELSE g

gpio1_voltage ==
    LET g == get_adc_10bits(Registers.Gpio1Voltage)
        value == g.res.val
    IN  IF g.res.ok THEN Done(g.io, g.sample, value \div 2, g.ovf) ELSE g

\* Variant: Ok(x) => Ok(x), the control bit left in.
battery_level_unmasked ==
    LET w == write_read_byte(Registers.BatteryLevel) IN
    IF w.res.ok
    THEN Done(w.io, w.sample, w.res.val, w.ovf)
    ELSE [w EXCEPT !.res = Err(w.res.err)]

\* Ok(x) => Ok(x & 0b0111_1111),  Err(x) => Err(x)
battery_level ==
    LET w == write_read_byte(Registers.BatteryLevel) IN
    IF w.res.ok
    THEN Done(w.io, w.sample, BitAnd(w.res.val, 127), w.ovf)
    ELSE [w EXCEPT !.res = Err(w.res.err)]

\* Ok(level == BATTERY_LEVEL_MISSING)
battery_present ==
    LET l == battery_level IN
    IF l.res.ok
    THEN Done(l.io, l.sample, l.res.val = BATTERY_LEVEL_MISSING, l.ovf)
    ELSE l

----------------------------------------------------------------------------
(* One accessor call on the Axp209 value. *)

\* The registers get_adc_10bits is called with directly: the ADC value
\* registers that have no accessor of their own.
DirectRegisters == {Registers.BatteryTemperature, Registers.SystemIpsout}

Call(name, a, o) ==
    /\ device # <<>>
    /\ op' = name
    /\ arg' = a
    /\ ncalls' = ncalls + 1
    /\ device' = o.io.rest
    /\ txLog' = o.io.tx
    /\ reply' = [ok |-> o.io.ok,
                 data |-> IF o.io.ok THEN o.io.buf ELSE <<>>,
                 err |-> o.io.err]
    /\ sample' = o.sample
    /\ overflow' = o.ovf
    /\ ret' = o.res
    /\ UNCHANGED address

Call_adc_control == Call("adc_control", -1, adc_control)
Call_get_adc_10bits ==
    \E register \in DirectRegisters :
        Call("get_adc_10bits", register, get_adc_10bits(register))
Call_battery_discharging_current ==
    Call("battery_discharging_current", -1, battery_discharging_current)
Call_battery_voltage == Call("battery_voltage", -1, battery_voltage)
Call_battery_charging_current ==
    Call("battery_charging_current", -1, battery_charging_current)
Call_acin_voltage == Call("acin_voltage", -1, acin_voltage)
Call_acin_current == Call("acin_current", -1, acin_current)
Call_vbus_voltage == Call("vbus_voltage", -1, vbus_voltage)
Call_vbus_current == Call("vbus_current", -1, vbus_current)
Call_temperature == Call("temperature", -1, temperature)
Call_gpio0_voltage == Call("gpio0_voltage", -1, gpio0_voltage)
Call_gpio1_voltage == Call("gpio1_voltage", -1, gpio1_voltage)
Call_battery_level == Call("battery_level", -1, battery_level)
Call_battery_present == Call("battery_present", -1, battery_present)

Next ==
    \/ Call_adc_control
    \/ Call_get_adc_10bits
    \/ Call_battery_discharging_current
    \/ Call_battery_voltage
    \/ Call_battery_charging_current
    \/ Call_acin_voltage
    \/ Call_acin_current
    \/ Call_vbus_voltage
    \/ Call_vbus_current
    \/ Call_temperature
    \/ Call_gpio0_voltage
    \/ Call_gpio1_voltage
    \/ Call_battery_level
    \/ Call_battery_present

----------------------------------------------------------------------------
(* Specifications. *)

\* Axp209::new(dev, address): nothing has been called yet.
new(dev, addr) ==
    /\ device = dev
    /\ address = addr
    /\ ncalls = 0
    /\ op = "none"
    /\ arg = -1
    /\ txLog = <<>>
    /\ reply = [ok |-> FALSE, data |-> <<>>, err |-> "None"]
    /\ sample = 0
    /\ overflow = FALSE
    /\ ret = Err("None")

\* Device addresses handed to new: 0x34 (the one the repository's test uses)
\* and 0x35.
Addresses == {52, 53}

\* Reply bytes of the sequence specification: 0x00, 0x32 and 0xFF.
SampleBytes == {0, 50, 255}

Answers(bytes) ==
    {BusOk(hi, lo) : hi \in bytes, lo \in bytes} \cup {BusErr(e) : e \in BusErrors}

RECURSIVE Queues(_, _)
Queues(S, n) ==
    IF n = 0 THEN {<<>>}
    ELSE LET shorter == Queues(S, n - 1) IN
         shorter \cup {<<x>> \o q : x \in S, q \in {r \in shorter : Len(r) = n - 1}}

\* Sequences of up to MaxCalls accessor calls; any transaction may fail.
Init ==
    \E dev \in Queues(Answers(SampleBytes), MaxCalls), addr \in Addresses :
        new(dev, addr)

Spec == Init /\ [][Next]_vars

\* One accessor call on every possible pair of reply bytes.
InitDecode ==
    \E hi \in Bytes, lo \in Bytes : new(<<BusOk(hi, lo)>>, 52)

SpecDecode == InitDecode /\ [][Next]_vars

----------------------------------------------------------------------------
(* Vocabulary of the properties. *)

\* The accessors that decode their sample with get_adc_10bits (Layout A).
LayoutAOps ==
    { "get_adc_10bits", "battery_voltage", "battery_charging_current",
      "acin_voltage", "acin_current", "vbus_voltage", "vbus_current",
      "temperature", "gpio0_voltage", "gpio1_voltage" }

\* The last call got its bytes and returned a value.
Returned(name) == op = name /\ reply.ok /\ ret.ok

\* (hi << 4) | (lo & 0x0F) and (hi << 5) | (lo & 0x1F) in plain arithmetic
LayoutA(d) == d[1] * 16 + (d[2] % 16)
LayoutB(d) == d[1] * 32 + (d[2] % 32)

----------------------------------------------------------------------------
(* C1: battery_present returns true exactly when the level returned by     *)
(* battery_level is not the missing-battery sentinel 0x7F, and false when  *)
(* it is 0x7F; for register byte 0x32 (level 50) it returns true.          *)
C1_PresentIffNotSentinel ==
    Returned("battery_present") =>
        /\ ret.val = ((reply.data[1] % 128) # 127)
        /\ (reply.data[1] = 50 => ret.val = TRUE)

----------------------------------------------------------------------------
(* C2: when the bus transaction of an accessor call fails, the accessor    *)
(* returns the transport's error value unchanged, and the transport has    *)
(* been called exactly once during that call.                              *)
C2_ErrorUnchangedNoRetry ==
    (op # "none" /\ ~reply.ok) =>
        /\ ~ret.ok
        /\ ret.err = reply.err
        /\ Len(txLog) = 1

C2_Witness ==
    /\ op = "temperature"
    /\ ~reply.ok
    /\ reply.err = "Timeout"
    /\ ret = Err("Timeout")
    /\ Len(txLog) = 1

----------------------------------------------------------------------------
----------------------------------------------------------------------------
(* C4, as stated: battery_discharging_current decodes the sample           *)
(* (hi << 5) | (lo & 0x1F), which lies in 0..2047 ([0xFF, 0x1F] decodes to *)
(* 2047), and returns sample / 2, truncated.                               *)
C4_LayoutB_Range2047 ==
    Returned("battery_discharging_current") =>
        /\ sample = LayoutB(reply.data)
        /\ sample \in 0 .. 2047
        /\ (reply.data = <<255, 31>> => sample = 2047)
        /\ ret.val = sample \div 2

(* C4, amended: battery_discharging_current decodes the sample             *)
(* (hi << 5) | (lo & 0x1F), which lies in 0..8191 ([0xFF, 0x1F] decodes to *)
(* 8191), and returns sample / 2, truncated.                               *)
C4_LayoutB_Range8191 ==
    Returned("battery_discharging_current") =>
        /\ sample = LayoutB(reply.data)
        /\ sample \in 0 .. 8191
        /\ (reply.data = <<255, 31>> => sample = 8191)
        /\ ret.val = sample \div 2

C4_Witness ==
    /\ Returned("battery_discharging_current")
    /\ reply.data = <<255, 31>>
    /\ sample = 8191
    /\ ret.val = 4095

----------------------------------------------------------------------------
(* C5: for every register byte b of a successful one-byte read,            *)
(* battery_level returns b & 0x7F: the top bit never affects the result,   *)
(* the result is in 0..127, 0xFF yields 0x7F and 0x32 yields 50.           *)
C5_LevelMasked ==
    Returned("battery_level") =>
        /\ Len(reply.data) = 1
        /\ ret.val = reply.data[1] % 128
        /\ ret.val \in 0 .. 127
        /\ (reply.data[1] = 255 => ret.val = 127)
        /\ (reply.data[1] = 50 => ret.val = 50)

C5_Witness ==
    /\ Returned("battery_level")
    /\ reply.data = <<255>>
    /\ ret.val = 127

----------------------------------------------------------------------------
(* C6: for every Layout A sample raw, battery_voltage returns raw + raw/10 *)
(* (truncating; raw = 1000 gives 1100), which never exceeds raw * 1.1 and  *)
(* is less than 1 below it.                                                *)
C6_BatteryVoltage ==
    Returned("battery_voltage") =>
        /\ sample = LayoutA(reply.data)
        /\ ret.val = sample + sample \div 10
        /\ (sample = 1000 => ret.val = 1100)
        /\ 10 * ret.val <= 11 * sample
        /\ 11 * sample < 10 * (ret.val + 1)

C6_Witness ==
    /\ Returned("battery_voltage")
    /\ sample = 1000
    /\ ret.val = 1100

----------------------------------------------------------------------------
----------------------------------------------------------------------------
(* C8: for every Layout A sample raw, the value acin_current returns       *)
(* differs from raw * 0.625 (raw * 5 / 8) by less than 1.                  *)
C8_AcinCurrentStep ==
    Returned("acin_current") =>
        /\ 8 * ret.val - 5 * sample < 8
        /\ 5 * sample - 8 * ret.val < 8

----------------------------------------------------------------------------
(* C9: for every pair of reply bytes no 16-bit arithmetic of a conversion  *)
(* wraps: the Layout A sample never exceeds 4096, so raw * 16, raw +       *)
(* raw/10 and raw + raw/7 stay below 2^16 and raw as i16 is not negative.  *)
C9_NoWrap ==
    (op # "none" /\ reply.ok) =>
        /\ ~overflow
        /\ op \in LayoutAOps =>
            /\ sample <= 4096
            /\ sample * 16 < U16
            /\ sample + sample \div 10 < U16
            /\ sample + sample \div 7 < U16
            /\ AsI16(sample) >= 0

C9_Witness ==
    /\ Returned("acin_current")
    /\ reply.data = <<255, 255>>
    /\ sample = 4095
    /\ ~overflow

----------------------------------------------------------------------------
(* C10: every call in a sequence issues its own single write-then-read     *)
(* transaction to the address given to new (which never changes), with a   *)
(* one-byte outgoing buffer holding the accessor's register and a reply    *)
(* length of 2 (1 for battery_level and battery_present); the value        *)
(* returned is a function of the accessor and that transaction's bytes.    *)
RegisterOf(name, a) ==
    CASE name = "adc_control" -> 130
      [] name = "get_adc_10bits" -> a
      [] name = "battery_discharging_current" -> 124
      [] name = "battery_voltage" -> 120
      [] name = "battery_charging_current" -> 122
      [] name = "acin_voltage" -> 86
      [] name = "acin_current" -> 88
      [] name = "vbus_voltage" -> 90
      [] name = "vbus_current" -> 92
      [] name = "temperature" -> 94
      [] name = "gpio0_voltage" -> 100
      [] name = "gpio1_voltage" -> 102
      [] name = "battery_level" -> 185
      [] name = "battery_present" -> 185

ReplyLength(name) ==
    IF name \in {"battery_level", "battery_present"} THEN 1 ELSE 2

ValueOf(name, d) ==
    CASE name = "adc_control" ->
            {i \in 0 .. 15 : ((d[1] * 256 + d[2]) \div 2^i) % 2 = 1}
      [] name = "get_adc_10bits" -> LayoutA(d)
      [] name = "battery_discharging_current" -> LayoutB(d) \div 2
      [] name = "battery_voltage" -> LayoutA(d) + LayoutA(d) \div 10
      [] name = "battery_charging_current" -> LayoutA(d) \div 2
      [] name = "acin_voltage" -> LayoutA(d) + LayoutA(d) \div 7
      [] name = "acin_current" -> ((LayoutA(d) * 16) \div 10) \div 16
      [] name = "vbus_voltage" -> LayoutA(d) + LayoutA(d) \div 7
      [] name = "vbus_current" -> (((LayoutA(d) * 16) \div 6) \div 16) \div 2
      [] name = "temperature" -> LayoutA(d) \div 10 - 145
      [] name = "gpio0_voltage" -> LayoutA(d) \div 2
      [] name = "gpio1_voltage" -> LayoutA(d) \div 2
      [] name = "battery_level" -> d[1] % 128
      [] name = "battery_present" -> ((d[1] % 128) = 127)

OwnTransaction ==
    /\ address' = address
    /\ ncalls' = ncalls + 1
    /\ Len(device') = Len(device) - 1
    /\ txLog' = << [ addr |-> address,
                     comm |-> <<RegisterOf(op', arg')>>,
                     len |-> ReplyLength(op') ] >>
    /\ reply'.ok => Len(reply'.data) = ReplyLength(op')
    /\ ret'.ok = reply'.ok
    /\ IF reply'.ok THEN ret'.val = ValueOf(op', reply'.data)
                    ELSE ret'.err = reply'.err

C10_OwnTransaction == [][OwnTransaction]_vars

C10_Witness ==
    /\ ncalls = 2
    /\ Returned("battery_level")
    /\ txLog = <<[addr |-> address, comm |-> <<185>>, len |-> 1]>>
    /\ reply.data = <<50>>
    /\ ret.val = 50

====
